---- MODULE Spec2Model ----
(***************************************************************************)
(* A model of the goal-wise-saver rule engines (streaks and badges,        *)
(* challenges, tips) over the localStorage collections they read and       *)
(* write.                                                                  *)
(*                                                                         *)
(* Time.  A Date object is an integer count of ticks since the epoch       *)
(* (TicksPerDay ticks per day; Date.now() is `now`).  A calendar-date      *)
(* string 'yyyy-MM-dd' is an integer day number.  tz is the host's offset  *)
(* from UTC in ticks: format(date, 'yyyy-MM-dd') and getDay() read the     *)
(* local calendar, new Date('yyyy-MM-dd') yields UTC midnight.             *)
(*                                                                         *)
(* Money is an integer; a percentage is kept to the whole percent.         *)
(***************************************************************************)
EXTENDS Integers, Sequences, FiniteSets, TLC

VARIABLES
    now,         \* Date.now(), in ticks
    tz,          \* host timezone offset, in ticks (fixed for a run)
    expenses,    \* localStorage 'smartsaver-expenses'
    activities,  \* localStorage 'smartsaver-activities'
    streak,      \* localStorage 'smartsaver-streaks'
    badges,      \* localStorage 'smartsaver-badges'
    challenges,  \* localStorage 'smartsaver-challenges'
    goals,       \* localStorage 'smartsaver-goals'
    budgets,     \* localStorage 'smartsaver-budgets'
    tips,        \* localStorage 'smartsaver-tips'
    advice,      \* localStorage 'smartsaver-ai-advice'
    income,      \* localStorage 'smartsaver-income'
    sessions,    \* each tab's position in a storage add and the copy it read
    call,        \* the arguments of the last call of a checked function
    ret          \* the value returned by the last call of a checked function

vars == <<now, tz, expenses, activities, streak, badges, challenges, goals,
          budgets, tips, advice, income, sessions, call, ret>>

----------------------------------------------------------------------------
(* Bounds of the model *)

TicksPerDay == 3

MaxDays == 3

MaxActivities == 3

MaxBadgeActivities == 2

(* Inputs *)

TZOffsets == {-1, 0, 1}

RecordInputs == {<<50, FALSE>>, <<0, FALSE>>, <<0, TRUE>>}

NoDate == -1000

NoResult == <<[none |-> TRUE]>>

NoCall == [name |-> "none"]

\* no other tab is in the middle of a storage call
NoSessions == <<>>

----------------------------------------------------------------------------
(* Sequence helpers: Array.prototype methods *)

Range(s) == {s[i] : i \in 1..Len(s)}

Reverse(s) == [i \in 1..Len(s) |-> s[Len(s) + 1 - i]]

Unshift(s, x) == <<x>> \o s

RECURSIVE InsertAsc(_, _)
InsertAsc(s, x) ==
    IF s = <<>> THEN <<x>>
    ELSE IF x < Head(s) THEN <<x>> \o s
    ELSE <<Head(s)>> \o InsertAsc(Tail(s), x)

RECURSIVE SortAsc(_)
SortAsc(s) ==
    IF s = <<>> THEN <<>> ELSE InsertAsc(SortAsc(Tail(s)), Head(s))

----------------------------------------------------------------------------
(* Dates *)

\* new Date('yyyy-MM-dd'): a date-only string is UTC midnight of that day
ParseDate(day) == day * TicksPerDay

\* format(date, 'yyyy-MM-dd'): the local calendar day of an instant
FormatDate(t, zone) == (t + zone) \div TicksPerDay

\* date-fns differenceInDays: full days between two instants, truncated
\* towards zero
differenceInDays(left, right) ==
    IF left >= right THEN (left - right) \div TicksPerDay
    ELSE -((right - left) \div TicksPerDay)

----------------------------------------------------------------------------
(* Storage accessors *)

EmptyStreak ==
    [currentStreak |-> 0, longestStreak |-> 0, lastSavingDay |-> NoDate,
     streakHistory |-> <<>>]

BadgeId(days) == <<"streak", days>>

badgesStorageAdd(bs, badge) ==
    IF \E i \in 1..Len(bs) : bs[i].id = badge.id THEN bs
    ELSE Append(bs, badge)

savingActivitiesStorageAdd(as, activity) == Unshift(as, activity)

----------------------------------------------------------------------------
(* Streak engine *)

StreakBadgeDays == <<7, 14, 30, 60, 100>>

\* the forEach of awardBadgeIfEligible from threshold k on; existing is the
\* list read once before the loop, bs the stored list
RECURSIVE AwardFrom(_, _, _, _, _)
AwardFrom(k, existing, bs, currentStreak, t) ==
    IF k > Len(StreakBadgeDays) THEN bs
    ELSE
        LET days == StreakBadgeDays[k]
            alreadyEarned == \E i \in 1..Len(existing) : existing[i].id = BadgeId(days)
            badge == [id |-> BadgeId(days), earnedAt |-> t, requirement |-> days]
        IN  IF currentStreak >= days /\ ~alreadyEarned
            THEN AwardFrom(k + 1, existing, badgesStorageAdd(bs, badge), currentStreak, t)
            ELSE AwardFrom(k + 1, existing, bs, currentStreak, t)

AwardNoCheck(bs, currentStreak, t) ==
    bs \o [k \in 1..Cardinality({j \in 1..Len(StreakBadgeDays) : currentStreak >= StreakBadgeDays[j]}) |->
              [id |-> BadgeId(StreakBadgeDays[k]), earnedAt |-> t,
               requirement |-> StreakBadgeDays[k]]]

AwardOneDayEarly(bs, currentStreak, t) ==
    AwardFrom(1, bs, bs, currentStreak + 1, t)

awardBadgeIfEligible(bs, currentStreak, t) ==
    AwardFrom(1, bs, bs, currentStreak, t)

\* the for loop of updateStreak from index i (1-based) with the count so far
RECURSIVE StreakLoop(_, _, _, _)
StreakLoop(sortedHistory, i, currentStreak, today) ==
    IF i > Len(sortedHistory) THEN currentStreak
    ELSE
        LET daysDiff == differenceInDays(today, ParseDate(sortedHistory[i]))
        IN  IF i = 1 /\ daysDiff <= 1
            THEN StreakLoop(sortedHistory, i + 1, 1, today)
            ELSE IF i > 1
            THEN LET prevDaysDiff ==
                         differenceInDays(today, ParseDate(sortedHistory[i - 1]))
                 IN  IF daysDiff = prevDaysDiff + 1
                     THEN StreakLoop(sortedHistory, i + 1, currentStreak + 1, today)
                     ELSE currentStreak
            ELSE currentStreak

LongestOverwritten(old, currentStreak) == currentStreak

LongestKept(old, currentStreak) == old

\* Math.max(streakData.longestStreak, currentStreak)
LongestOf(old, currentStreak) == IF old >= currentStreak THEN old ELSE currentStreak

\* the streak record updateStreak stores
updateStreak(st, savingDate, t) ==
    LET history ==
            IF savingDate \in Range(st.streakHistory) THEN st.streakHistory
            ELSE SortAsc(Append(st.streakHistory, savingDate))
        sortedHistory == Reverse(SortAsc(history))
        currentStreak == StreakLoop(sortedHistory, 1, 0, t)
    IN  [currentStreak |-> currentStreak,
         longestStreak |-> LongestOf(st.longestStreak, currentStreak),
         lastSavingDay |-> savingDate,
         streakHistory |-> history]

IsSavingDayNonNegative(activity) ==
    activity.netSavings >= 0 \/ activity.isManualSavingDay

\* const isSavingDay = netSavings > 0 || isManualSavingDay
IsSavingDay(activity) == activity.netSavings > 0 \/ activity.isManualSavingDay

\* the activity row of recordSavingActivity; its id (saving_<Date.now()>) and
\* goalContributions are stored and read by no engine, and are left out
NewActivity(t, zone, netSavings, isManualSavingDay) ==
    [date |-> FormatDate(t, zone), netSavings |-> netSavings,
     isManualSavingDay |-> isManualSavingDay]

\* recordSavingActivity as a function of the three collections it touches
StreakAfterRecord(st, t, zone, netSavings, isManualSavingDay) ==
    IF IsSavingDay(NewActivity(t, zone, netSavings, isManualSavingDay))
    THEN updateStreak(st, FormatDate(t, zone), t)
    ELSE st

BadgesBeforeUpdate(bs, st, t, zone, netSavings, isManualSavingDay) ==
    IF IsSavingDay(NewActivity(t, zone, netSavings, isManualSavingDay))
    THEN awardBadgeIfEligible(bs, st.currentStreak, t)
    ELSE bs

\* updateStreak ends with awardBadgeIfEligible(), which reads the streak just
\* stored
BadgesAfterRecord(bs, st, t, zone, netSavings, isManualSavingDay) ==
    IF IsSavingDay(NewActivity(t, zone, netSavings, isManualSavingDay))
    THEN awardBadgeIfEligible(
             bs, StreakAfterRecord(st, t, zone, netSavings, isManualSavingDay).currentStreak, t)
    ELSE bs

getCurrentStreak == streak.currentStreak

getLongestStreak == streak.longestStreak

----------------------------------------------------------------------------
(* Challenge engine *)

\* an optional number (targetAmount?, targetReduction?): <<>> when absent
Absent == <<>>

Some(x) == <<x>>

\* !x of an optional number: absent or 0
Falsy(x) == x = Absent \/ x = Some(0)

Max(a, b) == IF a >= b THEN a ELSE b

Min(a, b) == IF a <= b THEN a ELSE b

Abs(a) == IF a >= 0 THEN a ELSE -a

\* a / b kept to the whole number, towards zero (b # 0)
Quot(a, b) ==
    IF (a >= 0) = (b > 0) THEN Abs(a) \div Abs(b) ELSE -(Abs(a) \div Abs(b))

RECURSIVE Sum(_)
Sum(s) == IF s = <<>> THEN 0 ELSE Head(s) + Sum(Tail(s))

\* Array.prototype.filter with the predicate given as the set of kept values
RECURSIVE Filter(_, _)
Filter(s, keep) ==
    IF s = <<>> THEN <<>>
    ELSE IF Head(s) \in keep THEN <<Head(s)>> \o Filter(Tail(s), keep)
    ELSE Filter(Tail(s), keep)

Amounts(s) == [i \in 1..Len(s) |-> s[i].amount]

EpochWeekday == 4

\* Date.prototype.getDay: the local day of the week, 0 = Sunday
getDay(t, zone) == (FormatDate(t, zone) + EpochWeekday) % 7

isAfter(date, dateToCompare) == date > dateToCompare

isWithinInterval(date, start, end) == start <= date /\ date <= end

addDays(date, amount) == date + amount * TicksPerDay

HistoryDays == 90

HistoryMonths == 3

IsWeekend(t, zone) == getDay(t, zone) = 0 \/ getDay(t, zone) = 6

SaveAmountProgress(savingsInPeriod, targetAmount) ==
    Min(100, Quot(savingsInPeriod * 100, targetAmount))

ExpenseLimitUnclamped(totalExpenses, targetAmount) ==
    IF totalExpenses <= targetAmount THEN 100
    ELSE 100 - Quot((totalExpenses - targetAmount) * 100, targetAmount)

ExpenseLimitProgress(totalExpenses, targetAmount) ==
    IF totalExpenses <= targetAmount THEN 100
    ELSE Max(0, 100 - Quot((totalExpenses - targetAmount) * 100, targetAmount))

InWindow(es, c) ==
    {e \in Range(es) :
        isWithinInterval(ParseDate(e.date), c.startDate, c.endDate)}

\* reduce-category: the expenses of the category inside the window
categoryExpenses(c, es) ==
    Filter(es, {e \in InWindow(es, c) : e.category = c.category})

\* reduce-category: the expenses of the category from historicalStart =
\* addDays(challengeStart, -90) to challengeStart, both ends included
historicalExpenses(c, es) ==
    Filter(es, {e \in Range(es) :
                   /\ e.category = c.category
                   /\ isWithinInterval(ParseDate(e.date),
                                       addDays(c.startDate, -HistoryDays),
                                       c.startDate)})

calculateChallengeProgress(c, es, as, zone) ==
    CASE c.type = "no-spend-weekend" ->
            LET weekendExpenses ==
                    Filter(es, {e \in InWindow(es, c) :
                                   IsWeekend(ParseDate(e.date), zone)})
            IN  IF Len(weekendExpenses) = 0 THEN 100 ELSE 0
      [] c.type = "reduce-category" ->
            IF c.category = "" \/ Falsy(c.targetReduction) THEN 0
            ELSE
                LET totalSpent == Sum(Amounts(categoryExpenses(c, es)))
                    \* historicalAverage is historicalSum / 3; the quotients
                    \* below are its formulas multiplied through by 3
                    historicalSum ==
                        IF Len(historicalExpenses(c, es)) > 0
                        THEN Sum(Amounts(historicalExpenses(c, es))) ELSE 0
                IN  IF historicalSum = 0 THEN 0
                    ELSE Max(0, Min(100,
                             Quot((historicalSum - HistoryMonths * totalSpent) * 10000,
                                  historicalSum * c.targetReduction[1])))
      [] c.type = "save-amount" ->
            IF Falsy(c.targetAmount) THEN 0
            ELSE
                LET inPeriod ==
                        Filter(as, {a \in Range(as) :
                                       isWithinInterval(ParseDate(a.date),
                                                        c.startDate, c.endDate)})
                    savingsInPeriod ==
                        Sum([i \in 1..Len(inPeriod) |-> Max(0, inPeriod[i].netSavings)])
                IN  SaveAmountProgress(savingsInPeriod, c.targetAmount[1])
      [] c.type = "expense-limit" ->
            IF Falsy(c.targetAmount) THEN 0
            ELSE
                LET inPeriod == Filter(es, InWindow(es, c))
                    totalExpenses == Sum(Amounts(inPeriod))
                IN  ExpenseLimitProgress(totalExpenses, c.targetAmount[1])
      [] OTHER -> 0

\* { ...c, ...updates }; a challenge's name, description and createdAt are
\* stored and read by no engine, and are left out
Merge(c, updates) ==
    [f \in DOMAIN c |-> IF f \in DOMAIN updates THEN updates[f] ELSE c[f]]

challengesStorageAdd(cs, c) == Append(cs, c)

\* findIndex: the first challenge with the id
challengesStorageUpdate(cs, id, updates) ==
    IF \E i \in 1..Len(cs) : cs[i].id = id
    THEN LET index == CHOOSE i \in 1..Len(cs) :
                          /\ cs[i].id = id
                          /\ \A j \in 1..(i - 1) : cs[j].id # id
         IN  [cs EXCEPT ![index] = Merge(cs[index], updates)]
    ELSE cs

challengesStorageGetActive(cs) ==
    Filter(cs, {c \in Range(cs) : c.status = "active"})

createChallenge(cs, challenge, t) ==
    challengesStorageAdd(cs, [id |-> t] @@ challenge)

\* one iteration of the forEach of evaluateChallenges on the stored list cs
EvaluateOne(cs, challenge, es, as, today, zone) ==
    LET progress == calculateChallengeProgress(challenge, es, as, zone)
    IN  IF isAfter(today, challenge.endDate)
        THEN challengesStorageUpdate(
                 cs, challenge.id,
                 [status |-> IF progress >= 100 THEN "completed" ELSE "failed",
                  progress |-> progress])
        ELSE LET stored == challengesStorageUpdate(
                               cs, challenge.id, [progress |-> progress])
             IN  IF progress >= 100
                 THEN challengesStorageUpdate(
                          stored, challenge.id, [status |-> "completed"])
                 ELSE stored

RECURSIVE EvaluateEach(_, _, _, _, _, _)
EvaluateEach(active, cs, es, as, today, zone) ==
    IF active = <<>> THEN cs
    ELSE EvaluateEach(Tail(active),
                      EvaluateOne(cs, Head(active), es, as, today, zone),
                      es, as, today, zone)

CompleteEveryActive(cs, es, as, today, zone) ==
    [i \in 1..Len(cs) |->
        IF cs[i].status = "active" THEN Merge(cs[i], [status |-> "completed"])
        ELSE cs[i]]

\* the stored list after evaluateChallenges, which is also what it returns
evaluateChallenges(cs, es, as, today, zone) ==
    EvaluateEach(challengesStorageGetActive(cs), cs, es, as, today, zone)

AddOverwrites(es, expense) == <<expense>>

\* expensesStorage
expensesStorageAdd(es, expense) == Unshift(es, expense)

expensesStorageDelete(es, id) == Filter(es, {e \in Range(es) : e.id # id})

\* crypto.randomUUID(): an id no stored expense has
FreshId(es) == CHOOSE n \in 1..(Len(es) + 1) : \A i \in 1..Len(es) : es[i].id # n

----------------------------------------------------------------------------
(* Tips engine.  Months are taken as DaysPerMonth days long; a confidence   *)
(* score is kept in tenths (confidenceScore 8 is 0.8), which scales every   *)
(* ranking key by the same factor.  The quotients are exact on the inputs   *)
(* used below.                                                              *)

DaysPerMonth == 30

TipsMonths == 3

ExpensesPerMonth == 30

TopTips == 5

\* date.substring(0, 7): the YYYY-MM of a date string
MonthOf(day) == day \div DaysPerMonth

subMonths(date, amount) == date - amount * DaysPerMonth * TicksPerDay

\* Math.ceil(a / b) for b > 0
CeilDiv(a, b) == -((-a) \div b)

\* the keys of an object filled in array order: first occurrences, in order
RECURSIVE KeysInOrder(_, _)
KeysInOrder(s, seen) ==
    IF s = <<>> THEN <<>>
    ELSE IF Head(s) \in seen THEN KeysInOrder(Tail(s), seen)
    ELSE <<Head(s)>> \o KeysInOrder(Tail(s), seen \cup {Head(s)})

monthsCount(es) == Max(1, CeilDiv(Len(es), ExpensesPerMonth))

TotalOf(es, keep) == Sum(Amounts(Filter(es, keep)))

\* getCategorySpending: the categories in insertion order, and the monthly
\* average of one category (0 for a category without expenses)
SpendingCategories(es) == KeysInOrder([i \in 1..Len(es) |-> es[i].category], {})

categorySpending(es, category) ==
    Quot(TotalOf(es, {e \in Range(es) : e.category = category}), monthsCount(es))

getTotalMonthlySpending(es) == Quot(Sum(Amounts(es)), monthsCount(es))

\* the tips a forEach pushes, given what each element pushes
RECURSIVE Flatten(_)
Flatten(ss) == IF ss = <<>> THEN <<>> ELSE Head(ss) \o Flatten(Tail(ss))

\* A tip's text renders its own numbers and is left out of the records.
generateCategoryTips(es, t) ==
    LET TipOf(category) ==
            LET monthlyAverage == categorySpending(es, category)
                reductionAmount == Min(Quot(monthlyAverage * 2, 10), 50)
            IN  IF monthlyAverage > 200
                THEN <<[id |-> <<"category", category, t>>,
                        impactYearly |-> reductionAmount * 12,
                        confidenceScore |-> IF monthlyAverage > 300 THEN 8 ELSE 6,
                        relatedCategory |-> category,
                        actionType |-> "reduce-spending",
                        suggestedReduction |-> reductionAmount]>>
                ELSE <<>>
    IN  LET categories == SpendingCategories(es)
        IN  Flatten([i \in 1..Len(categories) |-> TipOf(categories[i])])

generateBudgetTips(es, bs, t) ==
    LET TipOf(budget) ==
            LET actualSpending == categorySpending(es, budget.category)
                overspend == actualSpending - budget.monthlyLimit
            IN  IF overspend > 0
                THEN <<[id |-> <<"budget", budget.category, t>>,
                        impactYearly |-> overspend * 12,
                        confidenceScore |-> 9,
                        relatedCategory |-> budget.category,
                        actionType |-> "budget-optimization",
                        suggestedReduction |-> overspend]>>
                ELSE <<>>
    IN  Flatten([i \in 1..Len(bs) |-> TipOf(bs[i])])

generateSavingsGoalTips(es, gs, t) ==
    LET totalMonthlySpending == getTotalMonthlySpending(es)
        TipOf(goal) ==
            LET remainingAmount == goal.targetAmount - goal.currentAmount
                monthsRemaining ==
                    Max(1, CeilDiv(ParseDate(goal.deadline) - t,
                                   DaysPerMonth * TicksPerDay))
                monthlyNeeded == Quot(remainingAmount, monthsRemaining)
                suggestedReduction ==
                    Min(monthlyNeeded, Quot(totalMonthlySpending, 10))
            IN  IF monthlyNeeded > 0
                THEN <<[id |-> <<"savings", goal.id, t>>,
                        impactYearly |-> suggestedReduction * 12,
                        confidenceScore |-> 7,
                        relatedCategory |-> "other",
                        actionType |-> "increase-savings",
                        suggestedReduction |-> suggestedReduction]>>
                ELSE <<>>
    IN  Flatten([i \in 1..Len(gs) |-> TipOf(gs[i])])

\* getMonthlyTrends: the months with expenses, ascending, and a month's total
TrendMonths(es) == SortAsc(KeysInOrder([i \in 1..Len(es) |-> MonthOf(es[i].date)], {}))

MonthTotal(es, month) == TotalOf(es, {e \in Range(es) : MonthOf(e.date) = month})

generateTrendTips(es, t) ==
    LET months == TrendMonths(es)
    IN  IF Len(months) >= 2
        THEN LET increase == MonthTotal(es, months[Len(months)])
                             - MonthTotal(es, months[Len(months) - 1])
             IN  IF increase > 100
                 THEN <<[id |-> <<"trend_increase", "", t>>,
                         impactYearly |-> increase * 12,
                         confidenceScore |-> 6,
                         relatedCategory |-> "other",
                         actionType |-> "reduce-spending",
                         suggestedReduction |-> Quot(increase, 2)]>>
                 ELSE <<>>
        ELSE <<>>

TipScore(tip) == tip.confidenceScore * tip.impactYearly

\* Array.prototype.sort((a, b) => score(b) - score(a)): stable, descending
RECURSIVE InsertByScore(_, _)
InsertByScore(sorted, tip) ==
    IF sorted = <<>> THEN <<tip>>
    ELSE IF TipScore(tip) > TipScore(Head(sorted)) THEN <<tip>> \o sorted
    ELSE <<Head(sorted)>> \o InsertByScore(Tail(sorted), tip)

RECURSIVE SortByScoreFrom(_, _)
SortByScoreFrom(sorted, rest) ==
    IF rest = <<>> THEN sorted
    ELSE SortByScoreFrom(InsertByScore(sorted, Head(rest)), Tail(rest))

Unsorted(ts) == ts

SortByScore(ts) == SortByScoreFrom(<<>>, ts)

Slice(s, n) == SubSeq(s, 1, Min(n, Len(s)))

\* every tip of the four generators, in the order they are pushed
AllTips(es, gs, bs, t) ==
    LET threeMonthsAgo == subMonths(t, TipsMonths)
        recentExpenses ==
            Filter(es, {e \in Range(es) : ParseDate(e.date) >= threeMonthsAgo})
    IN  generateCategoryTips(recentExpenses, t)
        \o generateBudgetTips(recentExpenses, bs, t)
        \o generateSavingsGoalTips(recentExpenses, gs, t)
        \o generateTrendTips(recentExpenses, t)

\* the list generateTips returns
generateTips(es, gs, bs, t) == Slice(SortByScore(AllTips(es, gs, bs, t)), TopTips)

StoreMerged(stored, ts) == ts \o stored

\* tipsStorage.update(tips): the stored list after it
tipsStorageUpdate(stored, ts) == ts

----------------------------------------------------------------------------
(* Projection.  An amount is an integer count of money units, UnitsPerCent  *)
(* to the cent; a number of years is a count of parts, PartsPerMonth to the *)
(* month; an annual rate is in whole percent.  (1 + r)^n and the annuity    *)
(* factor ((1 + r)^n - 1) / r are computed month by month, each month's     *)
(* interest rounded to the unit.                                            *)

UnitsPerCent == 4

PartsPerMonth == 4

MonthsPerYear == 12

CentsPerUnit == 100

\* an amount of whole currency units
Amount(whole) == whole * CentsPerUnit * UnitsPerCent

\* Math.round(a / b) for b > 0: the nearest integer, a tie going up
RoundHalfUp(a, b) == (2 * a + b) \div (2 * b)

\* Math.round(x * 100) / 100
RoundToCent(x) ==
    LET cents == x \div UnitsPerCent
        rest == x % UnitsPerCent
    IN  (cents + IF 2 * rest >= UnitsPerCent THEN 1 ELSE 0) * UnitsPerCent

MonthsUnscaled(years) == Max(0, RoundHalfUp(years, PartsPerMonth * MonthsPerYear))

MonthsCeil(years) == Max(0, -((-years) \div PartsPerMonth))

\* months = Math.max(0, Math.round(years * 12))
MonthsOf(years) == Max(0, RoundHalfUp(years, PartsPerMonth))

\* balance * monthlyRate, with monthlyRate = annualRate / 12
MonthlyInterest(balance, annualRate) ==
    LET perUnit == MonthsPerYear * CentsPerUnit
    IN  annualRate * (balance \div perUnit)
        + RoundHalfUp(annualRate * (balance % perUnit), perUnit)

\* what balance grows to in n months with payment added at each month's end
RECURSIVE GrowMonths(_, _, _, _)
GrowMonths(balance, payment, annualRate, n) ==
    IF n = 0 THEN balance
    ELSE GrowMonths(balance + MonthlyInterest(balance, annualRate) + payment,
                    payment, annualRate, n - 1)

ContributionsOnce(monthlyContribution, annualRate, months) ==
    IF annualRate = 0 THEN monthlyContribution
    ELSE GrowMonths(0, monthlyContribution, annualRate, months)

fvOfContributions(monthlyContribution, annualRate, months) ==
    IF annualRate = 0 THEN monthlyContribution * months
    ELSE GrowMonths(0, monthlyContribution, annualRate, months)

fvOfPrincipal(currentPrincipal, annualRate, months) ==
    GrowMonths(currentPrincipal, 0, annualRate, months)

\* formula shows these four numbers; generatedAt is the time of the call
calculateFutureValue(params, t) ==
    LET months == MonthsOf(params.years)
        formula == <<params.annualRate, months, params.monthlyContribution,
                     params.currentPrincipal>>
    IN  IF months = 0
        THEN [futureValue |-> RoundToCent(params.currentPrincipal),
              generatedAt |-> t,
              formula |-> formula]
        ELSE [futureValue |->
                  RoundToCent(fvOfContributions(params.monthlyContribution,
                                                params.annualRate, months)
                              + fvOfPrincipal(params.currentPrincipal,
                                              params.annualRate, months)),
              formula |-> formula,
              generatedAt |-> t]

----------------------------------------------------------------------------
(* Advisor.  aiAdviceStorage has no getLang, so cachedLang is undefined and *)
(* the language takes no part in the decision to regenerate.  An advice     *)
(* record keeps what the ranking and the cache read; title, message and     *)
(* action items are left out.  Income is positive in every input, which the *)
(* comparisons written by cross-multiplication rely on; the quotients are   *)
(* exact on the inputs used below.                                          *)

HoursPerDay == 24

CacheHours == 1

LatestLimit == 3

MaxStoredAdvice == 10

TopAdvice == 5

\* new Date().toISOString().slice(0, 7)
UTCMonth(t) == MonthOf(FormatDate(t, 0))

\* new Date(createdAt) > new Date(Date.now() - 60 * 60 * 1000)
IsFresh(createdAt, t) ==
    createdAt * HoursPerDay > t * HoursPerDay - CacheHours * TicksPerDay

aiAdviceStorageGetLatest(stored, limit) == Slice(stored, limit)

aiAdviceStorageAdd(stored, item) == Slice(Unshift(stored, item), MaxStoredAdvice)

getCurrentMonthIncome(inc, t) ==
    TotalOf(inc, {i \in Range(inc) : i.month = UTCMonth(t)})

getMonthlyExpenses(es, t) ==
    TotalOf(es, {e \in Range(es) : MonthOf(e.date) = UTCMonth(t)})

getPreviousMonthExpenses(es, t) ==
    TotalOf(es, {e \in Range(es) : MonthOf(e.date) = UTCMonth(subMonths(t, 1))})

\* getCategorySpending of the advisor: this month's categories and totals
AdvisorCategories(es, t) ==
    LET monthly == Filter(es, {e \in Range(es) : MonthOf(e.date) = UTCMonth(t)})
    IN  KeysInOrder([i \in 1..Len(monthly) |-> monthly[i].category], {})

AdvisorCategoryTotal(es, t, category) ==
    TotalOf(es, {e \in Range(es) :
                    MonthOf(e.date) = UTCMonth(t) /\ e.category = category})

Advice(id, type, priority, monthlySavings, yearlySavings, t) ==
    [id |-> id, type |-> type, priority |-> priority,
     impact |-> [monthlySavings |-> monthlySavings, yearlySavings |-> yearlySavings],
     createdAt |-> t]

generateOnboardingAdvice(t) ==
    <<Advice(<<"onboarding", t>>, "budget-optimization", "medium", 0, 0, t)>>

analyzeSpendingPatterns(es, inc, t) ==
    LET monthlyExpenses == getMonthlyExpenses(es, t)
        previousMonthExpenses == getPreviousMonthExpenses(es, t)
        neededReduction == Quot(10 * monthlyExpenses - 8 * inc, 10)
        increase == monthlyExpenses - previousMonthExpenses
    IN  IF monthlyExpenses = 0 \/ inc = 0 THEN <<>>
        ELSE (IF (inc - monthlyExpenses) * 100 < 20 * inc
              THEN <<Advice(<<"savings-rate", t>>, "spending-reduction",
                            IF (inc - monthlyExpenses) * 100 < 10 * inc
                            THEN "high" ELSE "medium",
                            neededReduction, neededReduction * 12, t)>>
              ELSE <<>>)
             \o
             (IF previousMonthExpenses > 0
                 /\ monthlyExpenses * 100 > previousMonthExpenses * 115
              THEN <<Advice(<<"spending-spike", t>>, "spending-reduction", "high",
                            Quot(increase, 2), increase * 6, t)>>
              ELSE <<>>)

analyzeGoalProgress(gs, es, inc, t) ==
    LET currentMonthlySavings == Max(0, inc - getMonthlyExpenses(es, t))
        AdviceOf(goal) ==
            LET remainingAmount == goal.targetAmount - goal.currentAmount
                monthsRemaining ==
                    Max(1, CeilDiv(ParseDate(goal.deadline) - t,
                                   DaysPerMonth * TicksPerDay))
                shortfall ==
                    Quot(remainingAmount, monthsRemaining) - currentMonthlySavings
            IN  IF remainingAmount > currentMonthlySavings * monthsRemaining
                THEN <<Advice(<<"goal-shortfall", goal.id>>, "goal-timeline",
                              IF monthsRemaining <= 6 THEN "high" ELSE "medium",
                              shortfall, shortfall * 12, t)>>
                ELSE IF currentMonthlySavings * monthsRemaining * 10
                           > remainingAmount * 12
                THEN <<Advice(<<"goal-ahead", goal.id>>, "goal-timeline", "low",
                              0, 0, t)>>
                ELSE <<>>
    IN  IF gs = <<>> \/ inc = 0 THEN <<>>
        ELSE Flatten([i \in 1..Len(gs) |-> AdviceOf(gs[i])])

analyzeBudgetEfficiency(es, bs, inc, t) ==
    LET totalBudget == Sum([i \in 1..Len(bs) |-> bs[i].monthlyLimit])
        AdviceOf(budget) ==
            LET overBudget ==
                    AdvisorCategoryTotal(es, t, budget.category) - budget.monthlyLimit
            IN  IF overBudget > 0
                THEN <<Advice(<<"budget-exceeded", budget.category>>,
                              "budget-optimization", "high",
                              Quot(overBudget * 7, 10), Quot(overBudget * 84, 10), t)>>
                ELSE <<>>
    IN  IF bs = <<>> \/ inc = 0 THEN <<>>
        ELSE Flatten([i \in 1..Len(bs) |-> AdviceOf(bs[i])])
             \o
             (IF totalBudget * 10 > inc * 8
              THEN <<Advice(<<"budget-too-high", t>>, "budget-optimization", "high",
                            Quot(10 * totalBudget - 7 * inc, 10),
                            Quot((10 * totalBudget - 7 * inc) * 12, 10), t)>>
              ELSE <<>>)

\* categoryBenchmarks, in percent of income
Benchmark(category) ==
    CASE category \in {"food", "transport"} -> 15
      [] category = "bills" -> 25
      [] OTHER -> 5

analyzeCategorySpending(es, inc, t) ==
    LET categories == AdvisorCategories(es, t)
        AdviceOf(category) ==
            LET amount == AdvisorCategoryTotal(es, t, category)
                benchmark == Benchmark(category)
            IN  IF amount * 1000 > inc * benchmark * 15
                THEN <<Advice(<<"category-high", category>>, "category-analysis",
                              IF amount * 100 > inc * benchmark * 2
                              THEN "high" ELSE "medium",
                              Quot((amount * 100 - inc * benchmark) * 3, 1000),
                              Quot((amount * 100 - inc * benchmark) * 36, 1000), t)>>
                ELSE <<>>
    IN  IF getMonthlyExpenses(es, t) = 0 \/ inc = 0 THEN <<>>
        ELSE Flatten([i \in 1..Len(categories) |-> AdviceOf(categories[i])])

priorityWeight(priority) ==
    CASE priority = "high" -> 3 [] priority = "medium" -> 2 [] OTHER -> 1

RanksByPriorityOnly(a, b) ==
    priorityWeight(a.priority) > priorityWeight(b.priority)

\* the comparator of the sort puts a before b
RanksBefore(a, b) ==
    IF priorityWeight(a.priority) # priorityWeight(b.priority)
    THEN priorityWeight(a.priority) > priorityWeight(b.priority)
    ELSE a.impact.yearlySavings > b.impact.yearlySavings

RECURSIVE InsertByRank(_, _)
InsertByRank(sorted, item) ==
    IF sorted = <<>> THEN <<item>>
    ELSE IF RanksBefore(item, Head(sorted)) THEN <<item>> \o sorted
    ELSE <<Head(sorted)>> \o InsertByRank(Tail(sorted), item)

RECURSIVE SortByRankFrom(_, _)
SortByRankFrom(sorted, rest) ==
    IF rest = <<>> THEN sorted
    ELSE SortByRankFrom(InsertByRank(sorted, Head(rest)), Tail(rest))

\* the advice array after the four push(...) calls
allAdvice(es, gs, bs, inc, t) ==
    analyzeSpendingPatterns(es, inc, t)
    \o analyzeGoalProgress(gs, es, inc, t)
    \o analyzeBudgetEfficiency(es, bs, inc, t)
    \o analyzeCategorySpending(es, inc, t)

\* advice.sort(comparator).slice(0, 5)
sortedAdvice(es, gs, bs, inc, t) ==
    Slice(SortByRankFrom(<<>>, allAdvice(es, gs, bs, inc, t)), TopAdvice)

\* aiAdviceStorage.clear(), then sortedAdvice.forEach(aiAdviceStorage.add)
RECURSIVE CacheEach(_, _)
CacheEach(stored, items) ==
    IF items = <<>> THEN stored
    ELSE CacheEach(aiAdviceStorageAdd(stored, Head(items)), Tail(items))

\* generateAdvice answers from the cache
ServedFromCache(forceRefresh, existingAdvice, t) ==
    /\ ~forceRefresh
    /\ Len(existingAdvice) > 0
    /\ IsFresh(existingAdvice[1].createdAt, t)

\* what a regenerating call has in hand before it sorts: the onboarding
\* list, or the advice array after the four analyses
generatedAdvice(es, gs, bs, incomes, t) ==
    IF es = <<>> /\ gs = <<>> THEN generateOnboardingAdvice(t)
    ELSE allAdvice(es, gs, bs, getCurrentMonthIncome(incomes, t), t)

\* generateAdvice: the list returned and the advice storage after the call
generateAdvice(forceRefresh, stored, es, gs, bs, incomes, t) ==
    LET existingAdvice == aiAdviceStorageGetLatest(stored, LatestLimit)
        inc == getCurrentMonthIncome(incomes, t)
        sorted == sortedAdvice(es, gs, bs, inc, t)
    IN  IF ServedFromCache(forceRefresh, existingAdvice, t)
        THEN [returned |-> existingAdvice, stored |-> stored]
        ELSE IF es = <<>> /\ gs = <<>>
        THEN [returned |-> generateOnboardingAdvice(t), stored |-> stored]
        ELSE [returned |-> sorted, stored |-> CacheEach(<<>>, sorted)]

----------------------------------------------------------------------------
(* Budget screen *)

\* budgetsStorage.update: findIndex, the first budget with the id
budgetsStorageUpdate(bs, id, updates) ==
    IF \E i \in 1..Len(bs) : bs[i].id = id
    THEN LET index == CHOOSE i \in 1..Len(bs) :
                          /\ bs[i].id = id
                          /\ \A j \in 1..(i - 1) : bs[j].id # id
         IN  [bs EXCEPT ![index] = Merge(bs[index], updates)]
    ELSE bs

\* currentMonthExpenses.filter(e => e.category === budget.category), summed
SpentThisMonth(budget, es, currentMonth) ==
    TotalOf(es, {e \in Range(es) :
                    MonthOf(e.date) = currentMonth /\ e.category = budget.category})

\* the savedBudgets.map of loadBudgets from the k-th saved budget on, on the
\* stored list bs
RECURSIVE LoadEach(_, _, _, _, _)
LoadEach(k, savedBudgets, bs, es, currentMonth) ==
    IF k > Len(savedBudgets) THEN bs
    ELSE
        LET budget == savedBudgets[k]
            spent == SpentThisMonth(budget, es, currentMonth)
        IN  LoadEach(k + 1, savedBudgets,
                     IF budget.currentSpent # spent
                     THEN budgetsStorageUpdate(bs, budget.id, [currentSpent |-> spent])
                     ELSE bs,
                     es, currentMonth)

\* loadBudgets: the budgets in storage afterwards and the list it shows
loadBudgets(bs, es, t) ==
    LET currentMonth == UTCMonth(t)
        updatedBudgets ==
            [k \in 1..Len(bs) |->
                Merge(bs[k], [currentSpent |-> SpentThisMonth(bs[k], es, currentMonth)])]
    IN  [stored |-> LoadEach(1, bs, bs, es, currentMonth),
         shown |-> Filter(updatedBudgets,
                          {b \in Range(updatedBudgets) : b.month = currentMonth})]

----------------------------------------------------------------------------
(* Actions *)

Tick(maxTick) ==
    /\ now < maxTick
    /\ now' = now + 1
    /\ UNCHANGED <<sessions, advice, income, call,
                   tz, expenses, activities, streak, badges, challenges, goals,
                   budgets, tips, ret>>

RecordSavingActivity(maxLog, inputs) ==
    \E input \in inputs :
      LET netSavings == input[1]
          isManualSavingDay == input[2]
      IN
        /\ Len(activities) < maxLog
        /\ activities' = savingActivitiesStorageAdd(
               activities, NewActivity(now, tz, netSavings, isManualSavingDay))
        /\ streak' = StreakAfterRecord(streak, now, tz, netSavings, isManualSavingDay)
        /\ badges' = BadgesAfterRecord(badges, streak, now, tz, netSavings,
                                       isManualSavingDay)
        /\ UNCHANGED <<sessions, advice, income, call,
                   now, tz, expenses, challenges, goals, budgets, tips, ret>>

AwardBadgeIfEligible ==
    /\ badges' = awardBadgeIfEligible(badges, getCurrentStreak, now)
    /\ UNCHANGED <<sessions, advice, income, call,
                   now, tz, expenses, activities, streak, challenges, goals,
                   budgets, tips, ret>>

AddExpense(maxExpenses, inputs) ==
    \E input \in inputs :
        /\ Len(expenses) < maxExpenses
        /\ expenses' = expensesStorageAdd(expenses, [id |-> FreshId(expenses)] @@ input)
        /\ UNCHANGED <<sessions, advice, income, call,
                   now, tz, activities, streak, badges, challenges, goals,
                       budgets, tips, ret>>

DeleteExpense ==
    \E i \in 1..Len(expenses) :
        /\ expenses' = expensesStorageDelete(expenses, expenses[i].id)
        /\ UNCHANGED <<sessions, advice, income, call,
                   now, tz, activities, streak, badges, challenges, goals,
                       budgets, tips, ret>>

CreateChallenge(maxChallenges, inputs) ==
    \E input \in inputs :
        /\ Len(challenges) < maxChallenges
        /\ challenges' = createChallenge(challenges, input, now)
        /\ UNCHANGED <<sessions, advice, income, call,
                   now, tz, expenses, activities, streak, badges, goals,
                       budgets, tips, ret>>

\* evaluateChallenges; observed says whether the caller keeps the returned list
EvaluateChallenges(observed) ==
    /\ challenges' = evaluateChallenges(challenges, expenses, activities, now, tz)
    /\ ret' = IF observed THEN challenges' ELSE ret
    /\ UNCHANGED <<sessions, advice, income, call,
                   now, tz, expenses, activities, streak, badges, goals,
                   budgets, tips>>

GenerateTips ==
    /\ ret' = generateTips(expenses, goals, budgets, now)
    /\ tips' = tipsStorageUpdate(tips, ret')
    /\ UNCHANGED <<sessions, advice, income, call,
                   now, tz, expenses, activities, streak, badges, challenges,
                   goals, budgets>>

CalculateFutureValue(inputs) ==
    \E params \in inputs :
        /\ call' = [name |-> "calculateFutureValue", params |-> params]
        /\ ret' = calculateFutureValue(params, now)
        /\ UNCHANGED <<sessions, now, tz, expenses, activities, streak, badges, challenges,
                       goals, budgets, tips, advice, income>>

\* generateAdvice; call keeps its argument, the time and existingAdvice
GenerateAdvice ==
    \E forceRefresh \in BOOLEAN :
      LET result == generateAdvice(forceRefresh, advice, expenses, goals, budgets,
                                   income, now)
      IN  /\ call' = [name |-> "generateAdvice", forceRefresh |-> forceRefresh,
                      at |-> now,
                      existingAdvice |-> aiAdviceStorageGetLatest(advice, LatestLimit),
                      generated |-> generatedAdvice(expenses, goals, budgets,
                                                    income, now)]
          /\ ret' = result.returned
          /\ advice' = result.stored
          /\ UNCHANGED <<sessions, now, tz, expenses, activities, streak, badges, challenges,
                         goals, budgets, tips, income>>

LoadBudgets ==
    /\ budgets' = loadBudgets(budgets, expenses, now).stored
    /\ ret' = loadBudgets(budgets, expenses, now).shown
    /\ call' = [name |-> "loadBudgets", at |-> now]
    /\ UNCHANGED <<sessions, now, tz, expenses, activities, streak, badges,
                   challenges, goals, tips, advice, income>>

\* storage add, first half: a tab reads the whole collection
\* (JSON.parse(localStorage.getItem(key)))
StorageGet(s, maxAdds) ==
    \E store \in {"expenses", "challenges"} :
        /\ sessions[s].pc = "idle"
        /\ Len(sessions[s].added) < maxAdds
        /\ sessions' = [sessions EXCEPT ![s] =
                            [pc |-> "read", store |-> store,
                             local |-> IF store = "expenses" THEN expenses
                                       ELSE challenges,
                             added |-> sessions[s].added]]
        /\ UNCHANGED <<now, tz, expenses, activities, streak, badges, challenges,
                       goals, budgets, tips, advice, income, call, ret>>

\* the item of a tab's n-th add; ids are taken as distinct
SessionExpense(s, n) ==
    [id |-> <<s, n>>, amount |-> 50, category |-> "food", date |-> 1]

SessionChallenge(s, n) ==
    [id |-> <<s, n>>]
        @@ [type |-> "expense-limit", category |-> "", targetAmount |-> <<100>>,
            targetReduction |-> <<>>, startDate |-> ParseDate(2),
            endDate |-> ParseDate(3), status |-> "active", progress |-> 0]

\* storage add, second half: the tab adds its item to the copy it read and
\* writes the whole collection back (localStorage.setItem(key, ...))
StorageSet(s) ==
    LET n == Len(sessions[s].added) + 1
        store == sessions[s].store
    IN  /\ sessions[s].pc = "read"
        /\ IF store = "expenses"
           THEN /\ expenses' = expensesStorageAdd(sessions[s].local,
                                                  SessionExpense(s, n))
                /\ UNCHANGED challenges
           ELSE /\ challenges' = challengesStorageAdd(sessions[s].local,
                                                      SessionChallenge(s, n))
                /\ UNCHANGED expenses
        /\ sessions' = [sessions EXCEPT ![s] =
                            [pc |-> "idle", store |-> store, local |-> <<>>,
                             added |-> Append(sessions[s].added, store)]]
        /\ call' = [name |-> "storage.add", session |-> s, store |-> store,
                    id |-> <<s, n>>]
        /\ UNCHANGED <<now, tz, activities, streak, badges, goals, budgets, tips,
                       advice, income, ret>>

----------------------------------------------------------------------------
(* Streaks from empty storage *)

EmptyStorage ==
    /\ expenses = <<>>
    /\ activities = <<>>
    /\ streak = EmptyStreak
    /\ badges = <<>>
    /\ challenges = <<>>
    /\ goals = <<>>
    /\ budgets = <<>>
    /\ tips = <<>>
    /\ advice = <<>>
    /\ income = <<>>
    /\ sessions = NoSessions
    /\ call = NoCall
    /\ ret = NoResult

StartTick == TicksPerDay

MaxTickStreak == StartTick + MaxDays * TicksPerDay

InitStreak ==
    /\ now = StartTick
    /\ tz \in TZOffsets
    /\ EmptyStorage

NextStreak ==
    \/ Tick(MaxTickStreak)
    \/ RecordSavingActivity(MaxActivities, RecordInputs)
    \/ AwardBadgeIfEligible

SpecStreak == InitStreak /\ [][NextStreak]_vars

----------------------------------------------------------------------------
(* Streaks near the badge thresholds.  The run starts in the storage that   *)
(* PrefixDays daily recordSavingActivity(50) calls leave behind, computed   *)
(* with the operators above.                                                *)

PrefixDays == StreakBadgeDays[2] - 1

\* the calls near a threshold: saved, nothing saved, marked by hand, and
\* money taken out of savings
BadgeRecordInputs == RecordInputs \cup {<<-20, FALSE>>}

\* the tick of the prefix's call on a day: inside that day in every zone
PrefixCallTick(day) == day * TicksPerDay + 1

RECURSIVE DailySavings(_, _)
DailySavings(k, zone) ==
    IF k = 0
    THEN [activities |-> <<>>, streak |-> EmptyStreak, badges |-> <<>>]
    ELSE
        LET prev == DailySavings(k - 1, zone)
            t == PrefixCallTick(k)
        IN  [activities |-> savingActivitiesStorageAdd(
                                prev.activities, NewActivity(t, zone, 50, FALSE)),
             streak |-> StreakAfterRecord(prev.streak, t, zone, 50, FALSE),
             badges |-> BadgesAfterRecord(prev.badges, prev.streak, t, zone, 50, FALSE)]

StartTickBadges == (PrefixDays + 1) * TicksPerDay - 1

MaxTickBadges == StartTickBadges + TicksPerDay + 1

InitBadges ==
    /\ now = StartTickBadges
    /\ tz \in TZOffsets
    /\ activities = DailySavings(PrefixDays, tz).activities
    /\ streak = DailySavings(PrefixDays, tz).streak
    /\ badges = DailySavings(PrefixDays, tz).badges
    /\ expenses = <<>>
    /\ challenges = <<>>
    /\ goals = <<>>
    /\ budgets = <<>>
    /\ tips = <<>>
    /\ advice = <<>>
    /\ income = <<>>
    /\ sessions = NoSessions
    /\ call = NoCall
    /\ ret = NoResult

NextBadges ==
    \/ Tick(MaxTickBadges)
    \/ RecordSavingActivity(PrefixDays + MaxBadgeActivities, BadgeRecordInputs)
    \/ AwardBadgeIfEligible

SpecBadges == InitBadges /\ [][NextBadges]_vars

----------------------------------------------------------------------------
(* Challenges over time: created, evaluated, expenses and savings recorded  *)
(* around one weekend window.  Day 1 is a Friday; the window runs from      *)
(* Saturday to Sunday, given as date strings.                               *)

MaxChallenges == 2

MaxExpenses == 2

MaxChallengeActivities == 1

Window(startDay, endDay) ==
    [startDate |-> ParseDate(startDay), endDate |-> ParseDate(endDay)]

ChallengeOf(type, category, targetAmount, targetReduction, window) ==
    [type |-> type, category |-> category, targetAmount |-> targetAmount,
     targetReduction |-> targetReduction, startDate |-> window.startDate,
     endDate |-> window.endDate, status |-> "active", progress |-> 0]

ChallengeInputs ==
    {ChallengeOf("no-spend-weekend", "", Absent, Absent, Window(2, 3)),
     ChallengeOf("reduce-category", "food", Absent, Some(20), Window(2, 3)),
     ChallengeOf("save-amount", "", Some(100), Absent, Window(2, 3)),
     ChallengeOf("expense-limit", "", Some(100), Absent, Window(2, 3))}

ExpenseInputs ==
    {[amount |-> 150, category |-> "food", date |-> 2],
     [amount |-> 300, category |-> "food", date |-> 1]}

MaxTickChallenge == ParseDate(3) + 1

StartTickChallenge == ParseDate(2) - 1

InitChallenge ==
    /\ now = StartTickChallenge
    /\ tz \in TZOffsets
    /\ EmptyStorage

NextChallenge ==
    \/ Tick(MaxTickChallenge)
    \/ CreateChallenge(MaxChallenges, ChallengeInputs)
    \/ AddExpense(MaxExpenses, ExpenseInputs)
    \/ DeleteExpense
    \/ RecordSavingActivity(MaxChallengeActivities, {<<50, FALSE>>})
    \/ EvaluateChallenges(FALSE)

SpecChallenge == InitChallenge /\ [][NextChallenge]_vars

----------------------------------------------------------------------------
(* Progress of one challenge: the storage holds one active challenge and a  *)
(* history drawn from the inputs below, and evaluateChallenges runs on it.  *)
(* The collection a challenge type does not read is left empty.             *)

MaxProgressExpenses == 2

MaxProgressActivities == 2

OptionalInputs == {Absent, Some(0), Some(100), Some(200), Some(-100)}

ProgressWindows == {Window(2, 3), Window(2, 4)}

ProgressChallengeInputs ==
    {ChallengeOf("no-spend-weekend", "", Absent, Absent, w) : w \in ProgressWindows}
    \cup {ChallengeOf("reduce-category", "food", Absent, r, w) :
             r \in OptionalInputs, w \in ProgressWindows}
    \cup {ChallengeOf("save-amount", "", a, Absent, w) :
             a \in OptionalInputs, w \in ProgressWindows}
    \cup {ChallengeOf("expense-limit", "", a, Absent, w) :
             a \in OptionalInputs, w \in ProgressWindows}

ProgressExpenseInputs ==
    [amount : {50, 150}, category : {"food", "transport"}, date : 1..4]

ProgressActivityInputs ==
    [date : {1, 2}, netSavings : {-50, 50, 150}, isManualSavingDay : {FALSE}]

\* the lists of at most n members of S
RECURSIVE ListsOf(_, _)
ListsOf(S, n) ==
    IF n = 0 THEN {<<>>}
    ELSE LET shorter == ListsOf(S, n - 1)
         IN  shorter \cup {Append(l, x) : l \in shorter, x \in S}

\* expenses as stored: the newest first, with ids as handed out
WithIds(l) == [i \in 1..Len(l) |-> [id |-> Len(l) + 1 - i] @@ l[i]]

InitProgress ==
    /\ now = StartTick
    /\ tz \in TZOffsets
    /\ \E c \in ProgressChallengeInputs :
          /\ challenges = createChallenge(<<>>, c, StartTick)
          /\ IF c.type = "save-amount"
             THEN /\ expenses = <<>>
                  /\ activities \in ListsOf(ProgressActivityInputs, MaxProgressActivities)
             ELSE /\ expenses \in {WithIds(l) :
                                     l \in ListsOf(ProgressExpenseInputs,
                                                   MaxProgressExpenses)}
                  /\ activities = <<>>
    /\ streak = EmptyStreak
    /\ badges = <<>>
    /\ goals = <<>>
    /\ budgets = <<>>
    /\ tips = <<>>
    /\ advice = <<>>
    /\ income = <<>>
    /\ sessions = NoSessions
    /\ call = NoCall
    /\ ret = NoResult

NextProgress == EvaluateChallenges(TRUE)

SpecProgress == InitProgress /\ [][NextProgress]_vars

----------------------------------------------------------------------------
(* Tips: the storage holds expenses, budgets and goals drawn from the       *)
(* inputs below and the tips of an earlier generation; tips are generated,  *)
(* expenses deleted and tips generated again.  Today is day 125, in month   *)
(* 4; day 10 is more than three months back.                                *)

MaxTipsExpenses == 2

StartTickTips == ParseDate(125)

TipsExpenseInputs ==
    [amount : {250, 400}, category : {"food", "transport"}, date : {10, 100, 122}]

TipsBudget(id, category, monthlyLimit) ==
    [id |-> id, category |-> category, monthlyLimit |-> monthlyLimit,
     currentSpent |-> 0, month |-> MonthOf(125)]

TipsBudgetLists ==
    {<<>>, <<TipsBudget(1, "food", 100)>>,
     <<TipsBudget(1, "food", 100), TipsBudget(2, "transport", 300)>>}

TipsGoal(id, targetAmount, currentAmount, deadline) ==
    [id |-> id, targetAmount |-> targetAmount, currentAmount |-> currentAmount,
     deadline |-> deadline]

TipsGoalLists ==
    {<<>>, <<TipsGoal(1, 600, 0, 130)>>, <<TipsGoal(1, 100, 100, 130)>>,
     <<TipsGoal(1, 600, 0, 130), TipsGoal(2, 1200, 1000, 170)>>}

\* what an earlier generation stored, when food spending was the only entry
StaleTips ==
    generateTips(<<[id |-> 1, amount |-> 400, category |-> "food", date |-> 100]>>,
                 <<>>, <<>>, StartTickTips - 1)

InitTips ==
    /\ now = StartTickTips
    /\ tz \in TZOffsets
    /\ expenses \in {WithIds(l) : l \in ListsOf(TipsExpenseInputs, MaxTipsExpenses)}
    /\ budgets \in TipsBudgetLists
    /\ goals \in TipsGoalLists
    /\ tips = StaleTips
    /\ activities = <<>>
    /\ streak = EmptyStreak
    /\ badges = <<>>
    /\ challenges = <<>>
    /\ advice = <<>>
    /\ income = <<>>
    /\ sessions = NoSessions
    /\ call = NoCall
    /\ ret = NoResult

NextTips ==
    \/ GenerateTips
    \/ DeleteExpense
    \/ Tick(StartTickTips + 1)

SpecTips == InitTips /\ [][NextTips]_vars

----------------------------------------------------------------------------
(* Projection: calculateFutureValue is called on the inputs below, among    *)
(* them amounts that are not whole cents, year counts that round to zero    *)
(* months, and the example of the unit tests.                               *)

MaxProjectionMonths == 3

ExampleParams ==
    [currentPrincipal |-> Amount(500000), monthlyContribution |-> Amount(20000),
     annualRate |-> 5, years |-> 5 * MonthsPerYear * PartsPerMonth]

ProjectionInputs ==
    [currentPrincipal : {0} \cup {Amount(100) + k : k \in 0..(UnitsPerCent - 1)},
     monthlyContribution : {0, Amount(10), Amount(10) + 1},
     annualRate : {0, 5, 12},
     years : (-PartsPerMonth)..(MaxProjectionMonths * PartsPerMonth)]
    \cup {ExampleParams}

InitProjection ==
    /\ now = StartTick
    /\ tz \in TZOffsets
    /\ EmptyStorage

NextProjection == CalculateFutureValue(ProjectionInputs)

SpecProjection == InitProjection /\ [][NextProjection]_vars

----------------------------------------------------------------------------
(* Advisor: the storage holds expenses, budgets, goals and income drawn     *)
(* from the inputs below; advice is generated, with and without             *)
(* forceRefresh, while the clock advances and expenses are deleted.         *)

MaxAdviceExpenses == 2

\* this month's food and transport, and last month's food
AdviceExpenseInputs ==
    {[amount |-> 250, category |-> "food", date |-> 122],
     [amount |-> 600, category |-> "transport", date |-> 122],
     [amount |-> 600, category |-> "food", date |-> 100]}

AdviceBudgetLists == {<<>>, <<TipsBudget(1, "food", 100)>>}

AdviceGoalLists ==
    {<<>>, <<TipsGoal(1, 600, 0, 130)>>, <<TipsGoal(1, 1200, 1000, 170)>>,
     <<TipsGoal(1, 600, 0, 130), TipsGoal(2, 1200, 1000, 170)>>}

AdviceIncomeLists ==
    {<<>>, <<[id |-> 1, amount |-> 1000, month |-> MonthOf(125)]>>}

InitAdvice ==
    /\ now = StartTickTips
    /\ tz = 0
    /\ expenses \in {WithIds(l) : l \in ListsOf(AdviceExpenseInputs, MaxAdviceExpenses)}
    /\ budgets \in AdviceBudgetLists
    /\ goals \in AdviceGoalLists
    /\ income \in AdviceIncomeLists
    /\ advice = <<>>
    /\ tips = <<>>
    /\ activities = <<>>
    /\ streak = EmptyStreak
    /\ badges = <<>>
    /\ challenges = <<>>
    /\ sessions = NoSessions
    /\ call = NoCall
    /\ ret = NoResult

NextAdvice ==
    \/ GenerateAdvice
    \/ DeleteExpense
    \/ Tick(StartTickTips + 1)

SpecAdvice == InitAdvice /\ [][NextAdvice]_vars

----------------------------------------------------------------------------
(* Two tabs on one store: each runs storage adds on the expenses and the    *)
(* challenges, and the tabs' reads and writes interleave in any order.      *)

MaxAddsPerSession == 2

\* the two tabs
SessionIds == {1, 2}

InitSessions ==
    /\ now = StartTick
    /\ tz = 0
    /\ expenses = <<>>
    /\ activities = <<>>
    /\ streak = EmptyStreak
    /\ badges = <<>>
    /\ challenges = <<>>
    /\ goals = <<>>
    /\ budgets = <<>>
    /\ tips = <<>>
    /\ advice = <<>>
    /\ income = <<>>
    /\ sessions = [s \in SessionIds |->
                      [pc |-> "idle", store |-> "none", local |-> <<>>,
                       added |-> <<>>]]
    /\ call = NoCall
    /\ ret = NoResult

NextSessions ==
    \E s \in SessionIds :
        \/ StorageGet(s, MaxAddsPerSession)
        \/ StorageSet(s)

SpecSessions == InitSessions /\ [][NextSessions]_vars

----------------------------------------------------------------------------
(* The budget screen over time: budgets of this month (4) and of last       *)
(* month (3) are in storage; expenses are added and deleted and the screen  *)
(* loads the budgets.                                                       *)

MaxBudgets == 2

MaxBudgetExpenses == 2

BudgetInputs ==
    {[category |-> "food", monthlyLimit |-> 100, currentSpent |-> 0,
      month |-> MonthOf(125)],
     [category |-> "transport", monthlyLimit |-> 300, currentSpent |-> 0,
      month |-> MonthOf(125)],
     [category |-> "food", monthlyLimit |-> 100, currentSpent |-> 0,
      month |-> MonthOf(125) - 1]}

InitBudgets ==
    /\ now = StartTickTips
    /\ tz = 0
    /\ budgets \in {WithIds(l) : l \in ListsOf(BudgetInputs, MaxBudgets)}
    /\ expenses = <<>>
    /\ activities = <<>>
    /\ streak = EmptyStreak
    /\ badges = <<>>
    /\ challenges = <<>>
    /\ goals = <<>>
    /\ tips = <<>>
    /\ advice = <<>>
    /\ income = <<>>
    /\ sessions = NoSessions
    /\ call = NoCall
    /\ ret = NoResult

NextBudgets ==
    \/ LoadBudgets
    \/ AddExpense(MaxBudgetExpenses, AdviceExpenseInputs)
    \/ DeleteExpense

SpecBudgets == InitBudgets /\ [][NextBudgets]_vars

----------------------------------------------------------------------------
(* Spending challenges over their window: an expense-limit or a             *)
(* no-spend-weekend challenge for the weekend of days 2 and 3 is created,   *)
(* expenses are added and evaluateChallenges runs, before, inside and after *)
(* the window.                                                              *)

MaxLimitChallenges == 1

MaxLimitExpenses == 2

LimitChallengeInputs ==
    {ChallengeOf("no-spend-weekend", "", Absent, Absent, Window(2, 3)),
     ChallengeOf("expense-limit", "", Some(100), Absent, Window(2, 3))}

InitCompletion ==
    /\ now = StartTickChallenge
    /\ tz \in TZOffsets
    /\ EmptyStorage

NextCompletion ==
    \/ Tick(MaxTickChallenge)
    \/ CreateChallenge(MaxLimitChallenges, LimitChallengeInputs)
    \/ AddExpense(MaxLimitExpenses, ExpenseInputs)
    \/ EvaluateChallenges(FALSE)

SpecCompletion == InitCompletion /\ [][NextCompletion]_vars

----------------------------------------------------------------------------
(* Claims about the streak engine *)

\* a step of recordSavingActivity: the only operation that adds an activity
RecordStep == Len(activities') = Len(activities) + 1

SavingRecordStep == RecordStep /\ IsSavingDay(activities'[1])

\* C2: a saving-day recording on a calendar day that is already in
\* streakHistory leaves streakHistory as it is (the date appears once) and
\* does not change currentStreak.
C2_SameDayRecordingKeepsStreak ==
    [][(SavingRecordStep /\ activities'[1].date \in Range(streak.streakHistory))
         => /\ streak'.streakHistory = streak.streakHistory
            /\ streak'.currentStreak = streak.currentStreak]_vars

\* C3: from empty storage, the first recordSavingActivity call with positive
\* netSavings gives getCurrentStreak() = 1, and a second such call made
\* directly after it (on the same date) gives getCurrentStreak() = 2 and
\* getLongestStreak() = 2.
C3_BackToBackCallsRaiseStreak ==
    /\ (Len(activities) = 1 /\ activities[1].netSavings > 0)
          => getCurrentStreak = 1
    /\ (/\ Len(activities) = 2
        /\ activities[1].netSavings > 0
        /\ activities[2].netSavings > 0
        /\ activities[1].date = activities[2].date)
          => (getCurrentStreak = 2 /\ getLongestStreak = 2)

\* C4: no step lowers the stored longestStreak.
C4_LongestStreakNeverDecreases ==
    [][streak'.longestStreak >= streak.longestStreak]_vars

\* a saving day after a gap: the current streak restarted, the longest stayed
C4_Witness ==
    /\ streak.currentStreak >= 1
    /\ streak.longestStreak > streak.currentStreak
    /\ streak.lastSavingDay = FormatDate(now, tz)

NoDuplicateBadgeIds ==
    \A i, j \in 1..Len(badges) : i # j => badges[i].id # badges[j].id

\* C5: the badge list never holds two badges with one id, and in every
\* reachable state a call of awardBadgeIfEligible followed by a second call
\* with the streak unchanged adds nothing at the second call.
C5_BadgeIdsNeverDuplicated ==
    /\ NoDuplicateBadgeIds
    /\ \A t \in {now, now + 1} :
         LET once == awardBadgeIfEligible(badges, getCurrentStreak, now)
         IN  awardBadgeIfEligible(once, getCurrentStreak, t) = once

\* both badges earned, and a later saving-day call ran the check again
C5_Witness ==
    /\ Len(badges) = 2
    /\ streak.currentStreak >= StreakBadgeDays[2]
    /\ Len(activities) = PrefixDays + 2
    /\ IsSavingDay(activities[1])
    /\ IsSavingDay(activities[2])

\* the number of consecutive calendar dates day, day - 1, ... in a history
RECURSIVE RunEndingAt(_, _)
RunEndingAt(history, day) ==
    IF day \in Range(history) THEN 1 + RunEndingAt(history, day - 1) ELSE 0

\* C18: after a saving-day recording the stored currentStreak is the length
\* of the maximal run of consecutive calendar dates in streakHistory that
\* ends at today's date.
C18_StreakIsRunEndingToday ==
    [][SavingRecordStep
         => streak'.currentStreak =
                RunEndingAt(streak'.streakHistory, activities'[1].date)]_vars

\* a step of recordSavingActivity with netSavings <= 0 and not marked manual
NonSavingRecordStep ==
    /\ RecordStep
    /\ activities'[1].netSavings <= 0
    /\ ~activities'[1].isManualSavingDay

\* C19: a recording with netSavings <= 0 and isManualSavingDay false adds
\* exactly one activity, dated today, to the saving-activity log, keeps the
\* earlier rows, and leaves the UserStreak record and the badge list as
\* they were.
C19_NonSavingCallOnlyLogs ==
    [][NonSavingRecordStep
         => /\ Tail(activities') = activities
            /\ activities'[1].date = FormatDate(now, tz)
            /\ streak' = streak
            /\ badges' = badges]_vars

\* a non-saving recording on the day a saving one would have reached the
\* second threshold: the streak and the badges are those of the day before
C19_Witness ==
    /\ Len(activities) = PrefixDays + 1
    /\ activities[1].netSavings <= 0
    /\ ~activities[1].isManualSavingDay
    /\ activities[1].date = PrefixDays + 1
    /\ streak.currentStreak = PrefixDays
    /\ streak.lastSavingDay = PrefixDays
    /\ Len(badges) = 1

HasBadge(bs, days) == \E i \in 1..Len(bs) : bs[i].id = BadgeId(days)

\* C20: after a saving-day recording, every threshold of 7, 14, 30, 60 and
\* 100 days that the stored currentStreak has reached has its badge
\* streak_<days> in the badge list, and no badge of a threshold above the
\* stored currentStreak was added by the call.
C20_BadgesFollowStreak ==
    [][SavingRecordStep
         => \A k \in 1..Len(StreakBadgeDays) :
              LET days == StreakBadgeDays[k]
              IN  /\ streak'.currentStreak >= days => HasBadge(badges', days)
                  /\ streak'.currentStreak < days
                        => (HasBadge(badges', days) => HasBadge(badges, days))]_vars

\* the saving-day recording that reached the second threshold: its badge was
\* earned in that call, the third threshold's was not
C20_Witness ==
    /\ Len(activities) = PrefixDays + 1
    /\ IsSavingDay(activities[1])
    /\ streak.currentStreak = StreakBadgeDays[2]
    /\ HasBadge(badges, StreakBadgeDays[1])
    /\ HasBadge(badges, StreakBadgeDays[2])
    /\ ~HasBadge(badges, StreakBadgeDays[3])
    /\ badges[Len(badges)].earnedAt = now

\* the number of consecutive saving days ending today or, when today is not
\* a saving day, yesterday; 0 when the most recent one is older
RunAdjacentTo(history, today) ==
    IF today \in Range(history) THEN RunEndingAt(history, today)
    ELSE RunEndingAt(history, today - 1)

CountedRecordStep ==
    /\ RecordStep
    /\ (activities'[1].netSavings > 0 \/ activities'[1].isManualSavingDay)

C27_LongestAtLeastCurrent == streak.longestStreak >= streak.currentStreak

\* a run of two saving days has raised both values together
C27_Witness ==
    /\ streak.currentStreak >= 2
    /\ streak.longestStreak = streak.currentStreak
    /\ Len(streak.streakHistory) >= 2

\* C28: a badge streak_<days> is in the badge list only if longestStreak has
\* reached that number of days.
C28_BadgeOnlyForReachedStreak ==
    \A k \in 1..Len(StreakBadgeDays) :
        HasBadge(badges, StreakBadgeDays[k])
            => streak.longestStreak >= StreakBadgeDays[k]

\* the second badge is held with the longest streak past its threshold and
\* short of the third
C28_Witness ==
    /\ HasBadge(badges, StreakBadgeDays[2])
    /\ ~HasBadge(badges, StreakBadgeDays[3])
    /\ streak.longestStreak >= StreakBadgeDays[2]
    /\ streak.longestStreak < StreakBadgeDays[3]
    /\ Len(badges) = 2

----------------------------------------------------------------------------
(* Claims about the challenge engine *)

TerminalStatus == {"completed", "failed", "expired"}

\* C1: a challenge whose status is completed, failed or expired keeps its
\* status and its progress in every later step, evaluateChallenges included.
C1_TerminalChallengeUnchanged ==
    [][\A i \in 1..Len(challenges) :
          challenges[i].status \in TerminalStatus
             => /\ challenges'[i].status = challenges[i].status
                /\ challenges'[i].progress = challenges[i].progress]_vars

\* a step of evaluateChallenges that changes the stored challenges
EvaluateStep ==
    /\ Len(challenges') = Len(challenges)
    /\ challenges' = evaluateChallenges(challenges, expenses, activities, now, tz)

ComputedProgress(c) == calculateChallengeProgress(c, expenses, activities, tz)

\* C14: evaluateChallenges run later than endDate leaves every challenge that
\* was active with that endDate completed when the progress computed at that
\* evaluation is >= 100 and failed otherwise, with that progress stored.
C14_PastDeadlineSettled ==
    [][EvaluateStep
         => \A i \in 1..Len(challenges) :
              (challenges[i].status = "active" /\ isAfter(now, challenges[i].endDate))
                 => /\ challenges'[i].progress = ComputedProgress(challenges[i])
                    /\ challenges'[i].status =
                         IF ComputedProgress(challenges[i]) >= 100
                         THEN "completed" ELSE "failed"]_vars

\* C15: evaluateChallenges run not later than an active challenge's endDate
\* stores the progress computed at that evaluation; the status becomes
\* completed when it is >= 100 and stays active otherwise.
C15_BeforeDeadlineProgressStored ==
    [][EvaluateStep
         => \A i \in 1..Len(challenges) :
              (challenges[i].status = "active" /\ ~isAfter(now, challenges[i].endDate))
                 => /\ challenges'[i].progress = ComputedProgress(challenges[i])
                    /\ challenges'[i].status =
                         IF ComputedProgress(challenges[i]) >= 100
                         THEN "completed" ELSE "active"]_vars

\* evaluateChallenges has run and its result was kept
Evaluated == ret # NoResult

\* the category of the challenge has no expense dated in the 90 days before
\* its startDate
NoPriorSpending(c, es) ==
    \A e \in Range(es) :
        ~(/\ e.category = c.category
          /\ addDays(c.startDate, -HistoryDays) <= ParseDate(e.date)
          /\ ParseDate(e.date) < c.startDate)

\* C22: evaluateChallenges gives a reduce-category challenge whose category
\* has no expenses in the 90 days before startDate the progress 0, whatever
\* is spent in its window; it is not marked completed, and is marked failed
\* by an evaluation later than endDate.
C22_NoHistoryNeverCompletes ==
    [][EvaluateStep
         => \A i \in 1..Len(challenges) :
              (/\ challenges[i].status = "active"
               /\ challenges[i].type = "reduce-category"
               /\ NoPriorSpending(challenges[i], expenses))
                 => /\ challenges'[i].progress = 0
                    /\ challenges'[i].status # "completed"
                    /\ isAfter(now, challenges[i].endDate)
                          => challenges'[i].status = "failed"]_vars

\* C23: for a reduce-category challenge, no expense counted in the in-window
\* spend is also counted in the historical average, whatever its date.
C23_HistoryExcludesWindow ==
    Evaluated
      => \A i \in 1..Len(challenges) :
           (/\ challenges[i].type = "reduce-category"
            /\ challenges[i].category # ""
            /\ ~Falsy(challenges[i].targetReduction))
             => Range(categoryExpenses(challenges[i], expenses))
                  \cap Range(historicalExpenses(challenges[i], expenses)) = {}

\* the day of the week of a calendar date, 0 = Sunday
WeekdayOfDate(day) == (day + EpochWeekday) % 7

DateIsWeekend(day) == WeekdayOfDate(day) = 0 \/ WeekdayOfDate(day) = 6

DateInWindow(day, c) == isWithinInterval(ParseDate(day), c.startDate, c.endDate)

\* C8: the progress of a no-spend-weekend challenge is 0 when some expense is
\* dated on a Saturday or Sunday inside the window and 100 otherwise.
C8_NoSpendWeekendBinary ==
    (Evaluated /\ ret[1].type = "no-spend-weekend")
       => ret[1].progress =
             IF \E i \in 1..Len(expenses) :
                   /\ DateIsWeekend(expenses[i].date)
                   /\ DateInWindow(expenses[i].date, ret[1])
             THEN 0 ELSE 100

\* total of the expenses dated inside the window of challenge c
SpentInWindow(c) ==
    Sum([i \in 1..Len(expenses) |->
            IF DateInWindow(expenses[i].date, c) THEN expenses[i].amount ELSE 0])

\* C9: with targetAmount T > 0 and in-window total S, the progress of an
\* expense-limit challenge is 100 for S <= T, 100 - (S - T)/T * 100 for
\* T < S < 2T, and 0 for S >= 2T.
C9_ExpenseLimitProgress ==
    (/\ Evaluated
     /\ ret[1].type = "expense-limit"
     /\ ret[1].targetAmount # Absent
     /\ ret[1].targetAmount[1] > 0)
       => LET T == ret[1].targetAmount[1]
              S == SpentInWindow(ret[1])
              progress == ret[1].progress
          IN  /\ S <= T => progress = 100
              /\ (T < S /\ S < 2 * T) => progress * T = 100 * T - (S - T) * 100
              /\ S >= 2 * T => progress = 0

\* spend at one and a half times the limit: the progress is 50
C9_Witness ==
    /\ Evaluated
    /\ ret[1].type = "expense-limit"
    /\ ret[1].targetAmount = Some(100)
    /\ SpentInWindow(ret[1]) = 150
    /\ ret[1].progress = 50

\* C10: every progress that evaluateChallenges stores is in [0, 100].
C10_ProgressWithinRange ==
    Evaluated => \A i \in 1..Len(ret) : 0 <= ret[i].progress /\ ret[i].progress <= 100

SpendingChallenge(c) == c.type \in {"expense-limit", "no-spend-weekend"}

\* C29 as stated: once the window has ended, a completed expense-limit or
\* no-spend-weekend challenge has progress 100 when recomputed from all the
\* expenses of its window that are in storage.
C29_CompletedMetGoalOverWindow ==
    \A i \in 1..Len(challenges) :
        (/\ challenges[i].status = "completed"
         /\ SpendingChallenge(challenges[i])
         /\ isAfter(now, challenges[i].endDate))
            => ComputedProgress(challenges[i]) = 100

\* C29, amended: a challenge that was active becomes completed only in an
\* evaluateChallenges call that computed, from the expenses in storage at
\* that call, a progress of at least 100 for an active challenge with its
\* id; the call may come before endDate.
C29_CompletedWhenEvaluatedAtGoal ==
    [][\A i \in 1..Len(challenges) :
          (/\ i <= Len(challenges')
           /\ challenges[i].status = "active"
           /\ challenges'[i].status = "completed")
             => /\ EvaluateStep
                /\ \E j \in 1..Len(challenges) :
                      /\ challenges[j].status = "active"
                      /\ challenges[j].id = challenges[i].id
                      /\ ComputedProgress(challenges[j]) >= 100]_vars

\* a spending challenge completed early, with the window over and spending
\* in the window that no longer meets the goal
C29_Witness ==
    \E i \in 1..Len(challenges) :
        /\ challenges[i].status = "completed"
        /\ SpendingChallenge(challenges[i])
        /\ isAfter(now, challenges[i].endDate)
        /\ ComputedProgress(challenges[i]) < 100

\* C30: after any sequence of createChallenge calls the stored challenges
\* have pairwise distinct ids.
C30_ChallengeIdsDistinct ==
    \A i, j \in 1..Len(challenges) :
        i # j => challenges[i].id # challenges[j].id

----------------------------------------------------------------------------
(* Claims about the tips engine *)

TipsGenerated == ret # NoResult

\* C6: in the list generateTips returns, confidenceScore * impactYearly does
\* not increase from a tip to the next.
C6_TipsRankedByScore ==
    TipsGenerated
       => \A i \in 1..(Len(ret) - 1) : TipScore(ret[i]) >= TipScore(ret[i + 1])

\* five tips returned, not all of one score
C6_Witness ==
    /\ TipsGenerated
    /\ Len(ret) = TopTips
    /\ TipScore(ret[1]) > TipScore(ret[TopTips])

\* C7: generateTips returns at most 5 tips, and the tips storage then holds
\* exactly the returned list.
C7_TipsReplacedByTopFive ==
    TipsGenerated => (Len(ret) <= TopTips /\ tips = ret)

\* more than five tips were generated and five are stored, none of them the
\* tip stored before
C7_Witness ==
    /\ TipsGenerated
    /\ Len(AllTips(expenses, goals, budgets, now)) > TopTips
    /\ Len(tips) = TopTips
    /\ \A i \in 1..Len(StaleTips) : StaleTips[i] \notin Range(tips)

----------------------------------------------------------------------------
(* Claims about the projection *)

Projected == call.name = "calculateFutureValue"

\* the number of months as the claims state it: round(years * 12)
RoundedMonths == RoundHalfUp(call.params.years, PartsPerMonth)

WithinHalfCent(value, exact) ==
    /\ value % UnitsPerCent = 0
    /\ 2 * Abs(value - exact) <= UnitsPerCent
    /\ exact % UnitsPerCent = 0 => value = exact

\* C11 as stated: when round(years * 12) is 0 the returned futureValue equals
\* currentPrincipal exactly, for any currentPrincipal.
C11_ZeroMonthsReturnsPrincipal ==
    (Projected /\ RoundedMonths = 0)
       => ret.futureValue = call.params.currentPrincipal

\* C11 amended: when round(years * 12) is 0 the returned futureValue is
\* currentPrincipal rounded to the cent: a whole number of cents within half
\* a cent of it, equal to it when it is a whole number of cents.
C11_ZeroMonthsReturnsRoundedPrincipal ==
    (Projected /\ RoundedMonths = 0)
       => WithinHalfCent(ret.futureValue, call.params.currentPrincipal)

\* years rounds down to zero months, with a rate and a contribution set
C11_Witness ==
    /\ Projected
    /\ call.params.years > 0
    /\ RoundedMonths = 0
    /\ call.params.annualRate > 0
    /\ call.params.monthlyContribution > 0
    /\ call.params.currentPrincipal > 0
    /\ ret.futureValue = call.params.currentPrincipal

StraightSum ==
    call.params.currentPrincipal + call.params.monthlyContribution * RoundedMonths

\* C12 as stated: with annualRate 0 and months > 0 the returned futureValue
\* equals currentPrincipal + monthlyContribution * months.
C12_ZeroRateAddsContributions ==
    (Projected /\ call.params.annualRate = 0 /\ RoundedMonths > 0)
       => ret.futureValue = StraightSum

\* C12 amended: with annualRate 0 and months > 0 the returned futureValue is
\* currentPrincipal + monthlyContribution * months rounded to the cent.
C12_ZeroRateAddsRoundedContributions ==
    (Projected /\ call.params.annualRate = 0 /\ RoundedMonths > 0)
       => WithinHalfCent(ret.futureValue, StraightSum)

C12_Witness ==
    /\ Projected
    /\ call.params.annualRate = 0
    /\ RoundedMonths = MaxProjectionMonths
    /\ call.params.monthlyContribution = Amount(10)
    /\ call.params.currentPrincipal = Amount(100)
    /\ ret.futureValue = Amount(100 + 10 * MaxProjectionMonths)

\* C13: principal 500000, 20000 a month, 5% a year, 5 years: the returned
\* futureValue is above 2,000,000 and below 2,100,000.
C13_ExampleWithinBand ==
    (Projected /\ call.params = ExampleParams)
       => /\ ret.futureValue > Amount(2000000)
          /\ ret.futureValue < Amount(2100000)

C13_Witness ==
    /\ Projected
    /\ call.params = ExampleParams
    /\ ret.formula[2] = 5 * MonthsPerYear

----------------------------------------------------------------------------
(* Claims about the advisor *)

Advised == call.name = "generateAdvice"

\* the last generateAdvice call regenerated instead of answering from the cache
Regenerated ==
    Advised /\ ~ServedFromCache(call.forceRefresh, call.existingAdvice, call.at)

\* a generateAdvice(false) call made less than an hour after the last call
CachedCallStep ==
    /\ call' # call
    /\ call'.name = "generateAdvice"
    /\ ~call'.forceRefresh
    /\ IsFresh(call.at, call'.at)

\* C16: after a generateAdvice call generated and cached a non-empty list,
\* every generateAdvice(false) call within the hour returns the same items
\* in the same order as the generating call.
C16_CacheServesGeneratedList ==
    [][(Regenerated /\ ret # <<>> /\ Range(advice) = Range(ret) /\ CachedCallStep)
          => ret' = ret]_vars

\* C17: whenever generateAdvice regenerates, the advice storage afterwards
\* holds exactly the items the call returned.
C17_RegenerationReplacesCache ==
    Regenerated => Range(advice) = Range(ret)

\* b does not come before a: lower priority weight, or the same weight and
\* yearlySavings not larger
NotAbove(a, b) ==
    \/ priorityWeight(b.priority) < priorityWeight(a.priority)
    \/ /\ priorityWeight(b.priority) = priorityWeight(a.priority)
       /\ b.impact.yearlySavings <= a.impact.yearlySavings

\* C21: the list a regenerating generateAdvice call returns has at most 5
\* items, is ordered by priority weight and then yearlySavings, both
\* non-increasing, and holds the first 5 of all generated advice in that
\* order: its items are generated ones, as many as there are up to 5, and no
\* generated item left out ranks above a kept one.
C21_TopFiveByPriorityThenSavings ==
    Regenerated
      => /\ Len(ret) = Min(TopAdvice, Len(call.generated))
         /\ \A i, j \in 1..Len(ret) : i < j => NotAbove(ret[i], ret[j])
         /\ Range(ret) \subseteq Range(call.generated)
         /\ \A g \in Range(call.generated) \ Range(ret) :
              \A i \in 1..Len(ret) : NotAbove(ret[i], g)

\* more than five items generated at the last call, the five returned ones of
\* two priorities and with different yearlySavings within one priority
C21_Witness ==
    /\ Regenerated
    /\ advice = Reverse(ret)
    /\ Len(call.generated) > TopAdvice
    /\ Len(ret) = TopAdvice
    /\ \E i, j \in 1..Len(ret) :
         /\ i < j
         /\ ret[i].priority = ret[j].priority
         /\ ret[i].impact.yearlySavings > ret[j].impact.yearlySavings
    /\ \E i, j \in 1..Len(ret) : ret[i].priority # ret[j].priority

----------------------------------------------------------------------------
(* Claims about the storage *)

StoreOf(store) == IF store = "expenses" THEN expenses ELSE challenges

Stored(store, id) == \E i \in 1..Len(StoreOf(store)) : StoreOf(store)[i].id = id

\* the adds a tab has completed, as <<store, id>>
CompletedAdds(s) ==
    {<<sessions[s].added[n], <<s, n>>>> : n \in 1..Len(sessions[s].added)}

OnlySession(s) ==
    \A t \in SessionIds \ {s} : sessions[t].pc = "idle" /\ sessions[t].added = <<>>

\* C24: storage adds are unsynchronised read-modify-write of the whole
\* collection.  While one tab alone uses the store every item it added is in
\* the collection; with two tabs the item of the last completed add is in its
\* collection (last writer wins) and nothing else is promised: the witness
\* is the interleaving in which both adds completed and one item is lost.
C24_LastWriterWins ==
    /\ \A s \in SessionIds :
          OnlySession(s) => \A a \in CompletedAdds(s) : Stored(a[1], a[2])
    /\ call.name = "storage.add" => Stored(call.store, call.id)
    /\ \A store \in {"expenses", "challenges"} :
          \A i \in 1..Len(StoreOf(store)) :
              \E s \in SessionIds :
                  <<store, StoreOf(store)[i].id>> \in CompletedAdds(s)

\* both tabs completed one add to the expenses and one of the two items is
\* not in the collection
C24_Witness ==
    /\ \A s \in SessionIds : sessions[s].pc = "idle"
    /\ sessions[1].added = <<"expenses">>
    /\ sessions[2].added = <<"expenses">>
    /\ Len(expenses) = 1

----------------------------------------------------------------------------
(* Claims about the budget screen *)

\* a run of loadBudgets
LoadStep ==
    /\ call'.name = "loadBudgets"
    /\ expenses' = expenses
    /\ budgets' = loadBudgets(budgets, expenses, now).stored

\* the expenses of a budget's category dated in the budget's own month
OwnMonthSpent(budget) ==
    TotalOf(expenses, {e \in Range(expenses) :
                          /\ MonthOf(e.date) = budget.month
                          /\ e.category = budget.category})

\* C25: after loadBudgets every budget in storage, of this month or another,
\* has currentSpent equal to the sum of the expenses of its category dated
\* in its own month.
C25_CurrentSpentOfOwnMonth ==
    [][LoadStep
         => \A i \in 1..Len(budgets) :
              budgets'[i].currentSpent = OwnMonthSpent(budgets[i])]_vars

====
